---- MODULE Spec2Model ----
(***************************************************************************)
(* Model of JBAVerificationSystem (src/kne/player_verification_system_v2.py)*)
(*                                                                         *)
(* Strings are sequences of characters.  A character is an atom written as *)
(* a TLA+ string: "a", "7", "/".  The three CJK date separators and the    *)
(* two characters of the table-header word for "name" are written in       *)
(* romaji because the tools accept ASCII only:                             *)
(*    "nen" = U+5E74, "gatsu" = U+6708, "nichi" = U+65E5,                  *)
(*    "shi" = U+6C0F, "mei" = U+540D.                                      *)
(* Python's None is the one-element sequence NoneVal, so that it can be    *)
(* compared with every string.                                             *)
(***************************************************************************)
EXTENDS Integers, Sequences, FiniteSets, TLC

NoneVal == <<"<None>">>

EmptyStr == <<>>

Digits == {"0", "1", "2", "3", "4", "5", "6", "7", "8", "9"}

IsDigit(c) == c \in Digits

DigitVal(c) ==
    CASE c = "0" -> 0 [] c = "1" -> 1 [] c = "2" -> 2 [] c = "3" -> 3
      [] c = "4" -> 4 [] c = "5" -> 5 [] c = "6" -> 6 [] c = "7" -> 7
      [] c = "8" -> 8 [] c = "9" -> 9

DigitChar(n) ==
    CASE n = 0 -> "0" [] n = 1 -> "1" [] n = 2 -> "2" [] n = 3 -> "3"
      [] n = 4 -> "4" [] n = 5 -> "5" [] n = 6 -> "6" [] n = 7 -> "7"
      [] n = 8 -> "8" [] n = 9 -> "9"

Contains(s, c) == \E i \in 1..Len(s) : s[i] = c

\* str.isdigit(): non-empty and every character a digit.
IsDigitStr(s) == Len(s) > 0 /\ \A i \in 1..Len(s) : IsDigit(s[i])

(***************************************************************************)
(* int(text) and str(n) as normalize_date_format uses them.  int() strips  *)
(* surrounding blanks and accepts one sign; anything else raises           *)
(* ValueError, which is IntFail here.                                      *)
(***************************************************************************)
IntFail == <<"<ValueError>">>

RECURSIVE Strip(_)
Strip(s) ==
    IF Len(s) = 0 THEN s
    ELSE IF s[1] = " " THEN Strip(Tail(s))
    ELSE IF s[Len(s)] = " " THEN Strip(SubSeq(s, 1, Len(s) - 1))
    ELSE s

RECURSIVE DigitsVal(_)
DigitsVal(s) ==
    IF Len(s) = 0 THEN 0
    ELSE 10 * DigitsVal(SubSeq(s, 1, Len(s) - 1)) + DigitVal(s[Len(s)])

RECURSIVE NatStr(_)
NatStr(n) ==
    IF n < 10 THEN <<DigitChar(n)>>
    ELSE Append(NatStr(n \div 10), DigitChar(n % 10))

\* Variant of StrOfInt that C14 must tell apart: the digits are kept as
\* they were written.
StrOfIntAsWritten(text) ==
    IF ~IsDigitStr(Strip(text)) THEN IntFail ELSE Strip(text)

\* str(int(text)), or IntFail when int(text) raises.
StrOfInt(text) ==
    LET t    == Strip(text)
        neg  == Len(t) > 0 /\ t[1] = "-"
        sign == Len(t) > 0 /\ t[1] \in {"-", "+"}
        body == IF sign THEN Tail(t) ELSE t
    IN  IF ~IsDigitStr(body) THEN IntFail
        ELSE IF neg /\ DigitsVal(body) # 0
             THEN <<"-">> \o NatStr(DigitsVal(body))
             ELSE NatStr(DigitsVal(body))

(***************************************************************************)
(* re.match(r'(\d{4})nen(\d{1,2})gatsu(\d{1,2})nichi', date_str): anchored *)
(* at the start of the string only; text after the day marker is ignored.  *)
(* The result is <<year, month, day>> or <<>> when there is no match.      *)
(***************************************************************************)
\* Variant of DigitRun that C13 must tell apart: (\d{2}), two digits only.
DigitRunTwoDigits(s, p, sep) ==
    IF p + 2 <= Len(s) /\ IsDigit(s[p]) /\ IsDigit(s[p + 1]) /\ s[p + 2] = sep
    THEN 2
    ELSE 0

\* (\d{1,2}) followed by the separator sep, starting at 1-based position p:
\* the number of digits taken, or 0 when this part does not match.
DigitRun(s, p, sep) ==
    IF p + 2 <= Len(s) /\ IsDigit(s[p]) /\ IsDigit(s[p + 1]) /\ s[p + 2] = sep
    THEN 2
    ELSE IF p + 1 <= Len(s) /\ IsDigit(s[p]) /\ s[p + 1] = sep
    THEN 1
    ELSE 0

KanjiDateMatch(s) ==
    IF ~(Len(s) >= 5 /\ IsDigitStr(SubSeq(s, 1, 4)) /\ s[5] = "nen")
    THEN <<>>
    ELSE LET m == DigitRun(s, 6, "gatsu")
         IN  IF m = 0 THEN <<>>
             ELSE LET q == 6 + m + 1
                      d == DigitRun(s, q, "nichi")
                  IN  IF d = 0 THEN <<>>
                      ELSE << SubSeq(s, 1, 4),
                              SubSeq(s, 6, 6 + m - 1),
                              SubSeq(s, q, q + d - 1) >>

\* date_str.split("/")
RECURSIVE SplitSlash(_)
SplitSlash(s) ==
    IF ~Contains(s, "/") THEN <<s>>
    ELSE LET p == CHOOSE i \in 1..Len(s) :
                      s[i] = "/" /\ \A j \in 1..(i - 1) : s[j] # "/"
         IN  <<SubSeq(s, 1, p - 1)>> \o SplitSlash(SubSeq(s, p + 1, Len(s)))

\* Variant of normalize_date_format that C12 must tell apart: the first
\* branch keeps month and day as they were written.
normalize_date_format_first_branch_keeps_zeros(date_str) ==
    IF date_str = NoneVal \/ date_str = EmptyStr THEN EmptyStr
    ELSE
      LET kanji == Contains(date_str, "nen") /\ Contains(date_str, "gatsu")
                   /\ Contains(date_str, "nichi")
          match == IF kanji THEN KanjiDateMatch(date_str) ELSE <<>>
      IN  IF match # <<>>
          THEN match[1] \o <<"/">> \o match[2] \o <<"/">> \o match[3]
          ELSE IF Contains(date_str, "/") /\ Len(SplitSlash(date_str)) = 3
          THEN LET parts == SplitSlash(date_str)
                   month == StrOfInt(parts[2])
                   day   == StrOfInt(parts[3])
               IN  IF month = IntFail \/ day = IntFail
                   THEN date_str
                   ELSE parts[1] \o <<"/">> \o month \o <<"/">> \o day
          ELSE date_str

\* Variant of normalize_date_format that C16 must tell apart: no except
\* clause, the ValueError of int() leaves the function.
normalize_date_format_without_except(date_str) ==
    IF date_str = NoneVal \/ date_str = EmptyStr THEN EmptyStr
    ELSE
      LET kanji == Contains(date_str, "nen") /\ Contains(date_str, "gatsu")
                   /\ Contains(date_str, "nichi")
          match == IF kanji THEN KanjiDateMatch(date_str) ELSE <<>>
      IN  IF match # <<>>
          THEN match[1] \o <<"/">> \o StrOfInt(match[2])
                        \o <<"/">> \o StrOfInt(match[3])
          ELSE IF Contains(date_str, "/") /\ Len(SplitSlash(date_str)) = 3
          THEN LET parts == SplitSlash(date_str)
                   month == StrOfInt(parts[2])
                   day   == StrOfInt(parts[3])
               IN  IF month = IntFail \/ day = IntFail
                   THEN IntFail
                   ELSE parts[1] \o <<"/">> \o month \o <<"/">> \o day
          ELSE date_str

\* lines 272-297
normalize_date_format(date_str) ==
    IF date_str = NoneVal \/ date_str = EmptyStr THEN EmptyStr
    ELSE
      LET kanji == Contains(date_str, "nen") /\ Contains(date_str, "gatsu")
                   /\ Contains(date_str, "nichi")
          match == IF kanji THEN KanjiDateMatch(date_str) ELSE <<>>
      IN  IF match # <<>>
          THEN match[1] \o <<"/">> \o StrOfInt(match[2])
                        \o <<"/">> \o StrOfInt(match[3])
          ELSE IF Contains(date_str, "/") /\ Len(SplitSlash(date_str)) = 3
          THEN LET parts == SplitSlash(date_str)
                   month == StrOfInt(parts[2])
                   day   == StrOfInt(parts[3])
               IN  IF month = IntFail \/ day = IntFail
                   THEN date_str            \* ValueError, caught by the bare except
                   ELSE parts[1] \o <<"/">> \o month \o <<"/">> \o day
          ELSE date_str

(***************************************************************************)
(* SequenceMatcher(None, a, b).ratio()  (difflib, called at line 317).     *)
(* find_longest_match returns the longest block a[i:i+k] = b[j:j+k] of the *)
(* window, the one starting earliest in a and, among those, earliest in b; *)
(* get_matching_blocks recurses on the windows left and right of it.  The  *)
(* autojunk heuristic needs 200 or more characters and plays no part.      *)
(* Indices are 0-based and the windows half-open, as in difflib.           *)
(***************************************************************************)
BlockAt(a, b, i, j, k) == \A d \in 1..k : a[i + d] = b[j + d]

Blocks(a, b, alo, ahi, blo, bhi) ==
    { t \in (alo..(ahi - 1)) \X (blo..(bhi - 1)) \X (1..(ahi - alo)) :
        /\ t[1] + t[3] <= ahi
        /\ t[2] + t[3] <= bhi
        /\ BlockAt(a, b, t[1], t[2], t[3]) }

Earlier(s, t) ==
    \/ s[3] > t[3]
    \/ s[3] = t[3] /\ s[1] < t[1]
    \/ s[3] = t[3] /\ s[1] = t[1] /\ s[2] <= t[2]

BestBlock(bs, alo, blo) ==
    IF bs = {} THEN <<alo, blo, 0>>
    ELSE CHOOSE s \in bs : \A t \in bs : Earlier(s, t)

find_longest_match(a, b, alo, ahi, blo, bhi) ==
    BestBlock(Blocks(a, b, alo, ahi, blo, bhi), alo, blo)

\* M: the total size of the matching blocks of the window.
RECURSIVE MatchSize(_, _, _, _, _, _)
\* the block m = <<i, j, k>> of the window and the blocks on its two sides
AroundBlock(a, b, alo, ahi, blo, bhi, m) ==
    IF m[3] = 0 THEN 0
    ELSE m[3]
         + MatchSize(a, b, alo, m[1], blo, m[2])
         + MatchSize(a, b, m[1] + m[3], ahi, m[2] + m[3], bhi)

MatchSize(a, b, alo, ahi, blo, bhi) ==
    IF alo >= ahi \/ blo >= bhi THEN 0
    ELSE AroundBlock(a, b, alo, ahi, blo, bhi,
                     find_longest_match(a, b, alo, ahi, blo, bhi))

\* Variant of ratio that C18 must tell apart: M/T, the matches counted once.
ratio_counts_matches_once(a, b) ==
    IF Len(a) + Len(b) = 0 THEN [num |-> 1, den |-> 1]
    ELSE [num |-> MatchSize(a, b, 0, Len(a), 0, Len(b)),
          den |-> Len(a) + Len(b)]

\* The ratio 2.0*M/T as the fraction num/den (1.0 when both strings are empty).
ratio(a, b) ==
    IF Len(a) + Len(b) = 0 THEN [num |-> 1, den |-> 1]
    ELSE [num |-> 2 * MatchSize(a, b, 0, Len(a), 0, Len(b)),
          den |-> Len(a) + Len(b)]

(***************************************************************************)
(* The test `name_similarity > 0.8` of lines 323 and 329.  The float       *)
(* 2.0*M/T is the double nearest to the fraction and 0.8 the double        *)
(* nearest to 8/10; for names of fewer than 10^15 characters two distinct  *)
(* fractions are further apart than one rounding step, so the comparison   *)
(* of the doubles is the comparison of the fractions.                      *)
(***************************************************************************)
ThresholdNum == 8

ThresholdDen == 10

\* Variant of AboveThreshold that C10 must tell apart: `>=` for `>`.
AtLeastThreshold(r) == r.num * ThresholdDen >= ThresholdNum * r.den

AboveThreshold(r) == r.num * ThresholdDen > ThresholdNum * r.den

\* `pat in s` for two strings.
IsSubstr(pat, s) ==
    \E i \in 0..(Len(s) - Len(pat)) : SubSeq(s, i + 1, i + Len(pat)) = pat

(***************************************************************************)
(* Bounds and the finite sets the inputs are drawn from.                   *)
(***************************************************************************)
\* most records in one answer of the team search
MaxTeams == 2

\* most member rows in one team page
MaxRows == 2

abc == <<"a", "b", "c">>

ab == <<"a", "b">>

abcd == <<"a", "b", "c", "d">>

\* 2004(nen)5(gatsu)31(nichi)
DateKanji == <<"2", "0", "0", "4", "nen", "5", "gatsu", "3", "1", "nichi">>

\* 2004/05/31
DatePadded == <<"2", "0", "0", "4", "/", "0", "5", "/", "3", "1">>

\* 2004/5/31
DatePlain == <<"2", "0", "0", "4", "/", "5", "/", "3", "1">>

\* 2000/01/01
DateOther == <<"2", "0", "0", "0", "/", "0", "1", "/", "0", "1">>

\* 2004-5-31: no format the normalizer knows
DateDashed == <<"2", "0", "0", "4", "-", "5", "-", "3", "1">>

\* player_name and birth_date of a call; None is a value a caller can pass.
AppNames == {abc, ab, NoneVal}

AppDates == {DateKanji, EmptyStr, NoneVal}

\* The rows (cell texts) a team page is made of: six rows with three cells,
\* a row whose birth-date cell is missing, a row with an empty name.
RowPool ==
    { << <<"1">>, abc,  DatePadded >>,
      << <<"2">>, abcd, DatePlain >>,
      << <<"3">>, abcd, DateOther >>,
      << <<"4">>, ab,   DatePlain >>,
      << <<"5">>, abcd, EmptyStr >>,
      << <<"6">>, abc,  DateDashed >>,
      << <<"7">>, abc >>,
      << <<"8">>, EmptyStr, DatePadded >> }

RowSeqs(n) == UNION { [1..k -> RowPool] : k \in 0..n }

(***************************************************************************)
(* get_team_members (lines 205-270).  An answer of the site is             *)
(*   [kind, tables]: kind "ok" is status 200 with a page that parses,      *)
(*   "non200" any other status, "exception" a request or parse that        *)
(*   raises.  A table is a sequence of rows, a row a sequence of cell      *)
(*   texts.                                                                *)
(***************************************************************************)
\* line 233: the member table has more than this many rows
MinRows == 10

\* header cells "member ID", "name", "birth date" (line 240)
HdrId == <<"me", "n", "ba", "-", "I", "D">>

HdrName == <<"shi", "mei">>

\* U+751F, then the three date characters
HdrBirth == <<"sei", "nen", "gatsu", "nichi">>

HeaderRow == <<HdrId, HdrName, HdrBirth>>

\* lines 232-242: the test one table has to pass
IsMemberTable(rows) ==
    /\ Len(rows) > MinRows
    /\ Len(rows[1]) >= 3
    /\ IsSubstr(HdrId, rows[1][1])
    /\ IsSubstr(HdrName, rows[1][2])
    /\ IsSubstr(HdrBirth, rows[1][3])

\* lines 230-242: the first table that passes, as <<table>>, or <<>>
FirstTable(tables, ok) ==
    IF ok = {} THEN <<>>
    ELSE <<tables[CHOOSE i \in ok : \A j \in ok : i <= j]>>

FindMemberTable(tables) ==
    FirstTable(tables, { i \in 1..Len(tables) : IsMemberTable(tables[i]) })

\* Variant of IsMemberRow that C9 must tell apart: the name is not tested.
IsMemberRowAnyName(cells) ==
    /\ Len(cells) >= 3
    /\ IsDigitStr(cells[1])

\* lines 248-254: the rows that become members
IsMemberRow(cells) ==
    /\ Len(cells) >= 3
    /\ IsDigitStr(cells[1])
    /\ cells[2] # EmptyStr
    /\ cells[2] # HdrName

MemberOf(cells) ==
    [member_id |-> cells[1], name |-> cells[2], birth_date |-> cells[3]]

\* lines 244-259
RECURSIVE MembersOf(_)
MembersOf(rows) ==
    IF rows = <<>> THEN <<>>
    ELSE IF IsMemberRow(Head(rows))
         THEN <<MemberOf(Head(rows))>> \o MembersOf(Tail(rows))
         ELSE MembersOf(Tail(rows))

\* what get_team_members returns on a non-200 status or an exception
FetchFailed == [team_name |-> "Error", members |-> <<>>]

\* lines 244-264: mt is <<the member table>> or <<>>
TeamData(mt) ==
    [team_name |-> "title",
     members   |-> IF mt = <<>> THEN <<>> ELSE MembersOf(Tail(mt[1]))]

get_team_members(resp) ==
    IF resp.kind # "ok" THEN FetchFailed
    ELSE TeamData(FindMemberTable(resp.tables))

\* A page with one table: the header row, the given rows, pad rows without cells.
TablePage(hdr, rows, pad) ==
    [kind |-> "ok", tables |-> << <<hdr>> \o rows \o [i \in 1..pad |-> <<>>] >>]

FetchResponses ==
    { [kind |-> "non200", tables |-> <<>>],
      [kind |-> "exception", tables |-> <<>>],
      [kind |-> "ok", tables |-> <<>>] }
    \cup { TablePage(HeaderRow, rows, MinRows) : rows \in RowSeqs(MaxRows) }
    \cup { TablePage(HeaderRow, rows, 0) : rows \in RowSeqs(1) }
    \cup { TablePage(<<HdrName, HdrId, HdrBirth>>, rows, MinRows) : rows \in RowSeqs(1) }

NoResponse == [kind |-> "none", tables |-> <<>>]

(***************************************************************************)
(* search_teams_by_university (lines 122-203).  An answer is               *)
(*   [kind, status, has_records, records]: kind "page_non200" and          *)
(*   "post_non200" are the two status tests, "bad_json" a body that does   *)
(*   not parse, "exception" a request that raises, "ok" a parsed body.     *)
(* A team is its id; its url is built from the id alone (line 191).        *)
(***************************************************************************)
MensTeam == "M"

RECURSIVE MensTeams(_)
MensTeams(records) ==
    IF records = <<>> THEN <<>>
    ELSE IF Head(records).team_gender_id = MensTeam
         THEN <<Head(records).id>> \o MensTeams(Tail(records))
         ELSE MensTeams(Tail(records))

search_teams_by_university(li, resp) ==
    IF ~li THEN <<>>
    ELSE IF resp.kind # "ok" THEN <<>>
    ELSE IF resp.status = "success" /\ resp.has_records
         THEN MensTeams(resp.records)
         ELSE <<>>

RecordSeqs ==
    UNION { { [i \in 1..k |-> [id |-> i, team_gender_id |-> g[i]]] :
                g \in [1..k -> {"M", "F"}] } : k \in 0..MaxTeams }

SearchResponses ==
    { [kind |-> k, status |-> "", has_records |-> FALSE, records |-> <<>>] :
        k \in {"page_non200", "post_non200", "bad_json", "exception"} }
    \cup { [kind |-> "ok", status |-> "success", has_records |-> TRUE, records |-> r] :
             r \in RecordSeqs }
    \cup { [kind |-> "ok", status |-> "error", has_records |-> FALSE, records |-> <<>>],
           [kind |-> "ok", status |-> "success", has_records |-> FALSE, records |-> <<>>] }

\* How the search of a call went: the test of line 125, else the answer's kind.
SearchStatus(li, resp) == IF ~li THEN "not_logged_in" ELSE resp.kind

(***************************************************************************)
(* verify_player_info (lines 299-340): the values it returns.              *)
(***************************************************************************)
NoMember == [member_id |-> EmptyStr, name |-> EmptyStr, birth_date |-> EmptyStr]

NoRatio == [num |-> 0, den |-> 0]

NoMessage == [text |-> "", arg |-> EmptyStr]

NoResult ==
    [status |-> "none", jba_data |-> NoMember, similarity |-> NoRatio,
     message |-> NoMessage]

\* Variant of NoTeamsResult that C6 must tell apart: no team is an error.
NoTeamsIsError ==
    [status |-> "error", jba_data |-> NoMember, similarity |-> NoRatio,
     message |-> [text |-> "no_team", arg |-> EmptyStr]]

\* line 306
NoTeamsResult ==
    [status |-> "not_found", jba_data |-> NoMember, similarity |-> NoRatio,
     message |-> [text |-> "no_team", arg |-> EmptyStr]]

\* line 337
NoPlayerResult ==
    [status |-> "not_found", jba_data |-> NoMember, similarity |-> NoRatio,
     message |-> [text |-> "no_player", arg |-> EmptyStr]]

\* Variant of ErrorResult that C8 must tell apart: no except clause, the
\* exception leaves the call.
ExceptionEscapes ==
    [status |-> "raised", jba_data |-> NoMember, similarity |-> NoRatio,
     message |-> [text |-> "error", arg |-> EmptyStr]]

\* lines 339-340
ErrorResult ==
    [status |-> "error", jba_data |-> NoMember, similarity |-> NoRatio,
     message |-> [text |-> "error", arg |-> EmptyStr]]

\* Variant of MatchResult that C20 must tell apart: a match reports the
\* similarity 1.0.
MatchResultFullScore(member, sim) ==
    [status |-> "match", jba_data |-> member,
     similarity |-> [num |-> 1, den |-> 1],
     message |-> NoMessage]

\* lines 324-328
MatchResult(member, sim) ==
    [status |-> "match", jba_data |-> member, similarity |-> sim,
     message |-> NoMessage]

\* Variant of MismatchResult that C5 must tell apart: the message quotes
\* the normalized date.
MismatchResultNormalized(member, sim) ==
    [status |-> "name_match_birth_mismatch", jba_data |-> member,
     similarity |-> sim,
     message |-> [text |-> "birth_mismatch",
                  arg  |-> normalize_date_format(member.birth_date)]]

\* lines 330-335: the message quotes member['birth_date']
MismatchResult(member, sim) ==
    [status |-> "name_match_birth_mismatch", jba_data |-> member,
     similarity |-> sim,
     message |-> [text |-> "birth_mismatch", arg |-> member.birth_date]]

\* Variant of Classify that C21 must tell apart: an entry without a birth
\* date never has the applicant's date.
ClassifyEmptyDateNeverMatches(member, name_similarity, birth_match) ==
    IF AboveThreshold(name_similarity) /\ birth_match
                                      /\ member.birth_date # EmptyStr
    THEN MatchResult(member, name_similarity)
    ELSE IF AboveThreshold(name_similarity)
    THEN MismatchResult(member, name_similarity)
    ELSE NoResult

\* lines 323-335: the value returned for one member, or NoResult to go on
Classify(member, name_similarity, birth_match) ==
    IF AboveThreshold(name_similarity) /\ birth_match
    THEN MatchResult(member, name_similarity)
    ELSE IF AboveThreshold(name_similarity)
    THEN MismatchResult(member, name_similarity)
    ELSE NoResult

\* Variant of CheckMember that C17 must tell apart: the roster's date is
\* compared as it was written.
CheckMemberRawDate(name, input_date, member) ==
    Classify(member,
             ratio(name, member.name),
             input_date = member.birth_date)

\* lines 317-335 for one member
CheckMember(name, input_date, member) ==
    Classify(member,
             ratio(name, member.name),
             input_date = normalize_date_format(member.birth_date))

\* Variant of FirstOf that C1 must tell apart: the greatest element.
LastOf(hits) ==
    IF hits = {} THEN 0 ELSE CHOOSE i \in hits : \A j \in hits : i >= j

\* The least element of a set of indices, 0 for the empty set.
FirstOf(hits) ==
    IF hits = {} THEN 0 ELSE CHOOSE i \in hits : \A j \in hits : i <= j

\* Variant of FirstReturn that C4 must tell apart: a member that matches is
\* preferred to an earlier one whose date differs.
BestReturn(name, input_date, roster) ==
    IF \E k \in 1..Len(roster) :
          CheckMember(name, input_date, roster[k]).status = "match"
    THEN FirstOf({ k \in 1..Len(roster) :
                     CheckMember(name, input_date, roster[k]).status = "match" })
    ELSE FirstOf({ k \in 1..Len(roster) :
                     CheckMember(name, input_date, roster[k]) # NoResult })

\* The first member at which the loop of line 315 returns, 0 if at none.
FirstReturn(name, input_date, roster) ==
    FirstOf({ i \in 1..Len(roster) :
                CheckMember(name, input_date, roster[i]) # NoResult })

(***************************************************************************)
(* lines 314-335 for one team: [outcome, at, result].  outcome "raise" is  *)
(* the TypeError of SequenceMatcher.ratio() on a player_name of None (it   *)
(* takes len() of it), raised at the first member; "return" a return at    *)
(* member `at`; "next" the end of the member loop after `at` members.      *)
(***************************************************************************)
ScanFrom(name, input_date, roster, i) ==
    IF i = 0
    THEN [outcome |-> "next", at |-> Len(roster), result |-> NoResult]
    ELSE [outcome |-> "return", at |-> i,
          result  |-> CheckMember(name, input_date, roster[i])]

ScanTeam(name, input_date, roster) ==
    IF roster = <<>>
    THEN [outcome |-> "next", at |-> 0, result |-> NoResult]
    ELSE IF name = NoneVal
    THEN [outcome |-> "raise", at |-> 1, result |-> ErrorResult]
    ELSE ScanFrom(name, input_date, roster,
                  FirstReturn(name, input_date, roster))

(***************************************************************************)
(* State.  One JBAVerificationSystem object and the call of                *)
(* verify_player_info in progress on it.  The call stops at each request   *)
(* to the site, whose answer is chosen when the request is made.           *)
(***************************************************************************)
VARIABLES
    logged_in,              \* self.logged_in
    pc,                     \* "idle", "scan" (in the team loop), "done"
    player_name,            \* arguments of the call
    birth_date,
    search_status,          \* how the team search of the call went
    teams,                  \* the list the search returned
    ti,                     \* index in teams of the team to fetch next
    normalized_input_date,
    last_resp,              \* the site's answer to the roster request of the
                            \* team the call ended in
    members,                \* team_data["members"] made of that answer
    fetched,                \* one entry per roster request of the call
    returned_at,            \* index in members of the member returned, or 0
    result,                 \* the value returned
    site,                   \* the site's answers when they are held fixed
    first,                  \* the first of two calls with the same arguments
    fn,                     \* a function applied on its own: input and values
    tournaments,            \* the table tournaments of TournamentManagement
    tm_call,                \* the last call of a TournamentManagement method
    admin_settings,         \* main: the value stored for 'accepting_applications'
    player_applications,    \* main: the table player_applications
    applicant               \* main: where the applicant's script run is

vars ==
    << logged_in, pc, player_name, birth_date, search_status, teams, ti,
       normalized_input_date, last_resp, members, fetched, returned_at,
       result, site, first, fn,
       tournaments, tm_call, admin_settings, player_applications, applicant >>

\* the two databases and the sessions of main
db_vars ==
    << tournaments, tm_call, admin_settings, player_applications, applicant >>

\* what the object itself holds and what a call holds
object_vars ==
    << logged_in, pc, player_name, birth_date, search_status, teams, ti,
       normalized_input_date, last_resp, members, fetched, returned_at,
       result >>

call_vars ==
    << player_name, birth_date, search_status, teams, ti,
       normalized_input_date, last_resp, members, fetched, returned_at,
       result >>

\* no site held fixed, no earlier call on record, no function applied
NoSite == [search |-> NoResponse, pages |-> <<>>]

NoFirst == [n |-> 0, name |-> NoneVal, date |-> NoneVal, result |-> NoResult]

NoFn == [n |-> 0, arg |-> <<>>, out1 |-> <<>>, out2 |-> <<>>]

\* no TournamentManagement method called yet
NoTmCall == [op |-> "none", id |-> 0, ok |-> TRUE]

\* no row with the key 'accepting_applications'
Absent == "absent"

\* an empty table with an AUTOINCREMENT key: no row, no id given out yet
EmptyTable == [rows |-> <<>>, last_id |-> 0]

\* the databases as init_database leaves them, nobody on the applicant page
NoDb ==
    /\ tournaments = <<>>
    /\ tm_call = NoTmCall
    /\ admin_settings = Absent
    /\ player_applications = EmptyTable
    /\ applicant = "idle"

ObjectInit ==
    /\ logged_in = FALSE
    /\ pc = "idle"
    /\ player_name = NoneVal
    /\ birth_date = NoneVal
    /\ search_status = "none"
    /\ teams = <<>>
    /\ ti = 0
    /\ normalized_input_date = EmptyStr
    /\ last_resp = NoResponse
    /\ members = <<>>
    /\ fetched = <<>>
    /\ returned_at = 0
    /\ result = NoResult

Init ==
    /\ ObjectInit
    /\ NoDb
    /\ site = NoSite
    /\ first = NoFirst
    /\ fn = NoFn

\* Variant of Login that C22 must tell apart: a login that fails clears the
\* flag.
LoginFailureLogsOut(outcome) ==
    /\ pc = "idle"
    /\ logged_in' = (outcome = "marker")
    /\ pc' = pc
    /\ UNCHANGED call_vars

\* login (lines 88-120): the flag is set when the answer holds the logout word.
Login(outcome) ==
    /\ pc = "idle"
    /\ logged_in' = IF outcome = "marker" THEN TRUE ELSE logged_in
    /\ pc' = pc
    /\ UNCHANGED call_vars

\* lines 301-309: the team search, the test for no team, the input date.
Call(name, date, resp) ==
    /\ pc = "idle"
    /\ player_name' = name
    /\ birth_date' = date
    /\ search_status' = SearchStatus(logged_in, resp)
    /\ teams' = search_teams_by_university(logged_in, resp)
    /\ IF teams' = <<>>
       THEN /\ result' = NoTeamsResult
            /\ pc' = "done"
            /\ ti' = 0
            /\ normalized_input_date' = EmptyStr
       ELSE /\ result' = NoResult
            /\ pc' = "scan"
            /\ ti' = 1
            /\ normalized_input_date' = normalize_date_format(date)
    /\ UNCHANGED << logged_in, last_resp, members, fetched, returned_at >>

\* Variant of MoreTeams that C7 must tell apart: the loop ends after the
\* first team.
NoMoreTeams(i, ts) == FALSE

\* line 312: the team loop goes on after team i of ts
MoreTeams(i, ts) == i < Len(ts)

\* Variant of Scanned that C19 must tell apart: a request that failed is
\* made again.
ScannedRetriesFailure(resp, roster, scan) ==
    /\ fetched' = Append(fetched, [team     |-> teams[ti],
                                   ok       |-> resp.kind = "ok",
                                   size     |-> Len(roster),
                                   examined |-> scan.at])
    /\ IF resp.kind # "ok"
       THEN /\ result' = NoResult
            /\ pc' = "scan"
            /\ ti' = ti
            /\ last_resp' = NoResponse
            /\ members' = <<>>
            /\ returned_at' = 0
       ELSE IF scan.outcome = "next" /\ MoreTeams(ti, teams)
       THEN /\ result' = NoResult
            /\ pc' = "scan"
            /\ ti' = ti + 1
            /\ last_resp' = NoResponse
            /\ members' = <<>>
            /\ returned_at' = 0
       ELSE /\ result' = IF scan.outcome = "next" THEN NoPlayerResult
                                                 ELSE scan.result
            /\ pc' = "done"
            /\ ti' = ti
            /\ last_resp' = resp
            /\ members' = roster
            /\ returned_at' = IF scan.outcome = "return" THEN scan.at ELSE 0

\* lines 314-337 once the answer resp for team ti is there: roster is the
\* member list made of it and scan is ScanTeam of that list.  fetched gets
\* the team, whether the request succeeded, the size of the roster and the
\* number of its members the loop reached.  When the loop goes on to the
\* next team, team_data is dead and is forgotten.
Scanned(resp, roster, scan) ==
    /\ fetched' = Append(fetched, [team     |-> teams[ti],
                                   ok       |-> resp.kind = "ok",
                                   size     |-> Len(roster),
                                   examined |-> scan.at])
    /\ IF scan.outcome = "next" /\ MoreTeams(ti, teams)
       THEN /\ result' = NoResult
            /\ pc' = "scan"
            /\ ti' = ti + 1
            /\ last_resp' = NoResponse
            /\ members' = <<>>
            /\ returned_at' = 0
       ELSE /\ result' = IF scan.outcome = "next" THEN NoPlayerResult
                                                 ELSE scan.result
            /\ pc' = "done"
            /\ ti' = ti
            /\ last_resp' = resp
            /\ members' = roster
            /\ returned_at' = IF scan.outcome = "return" THEN scan.at ELSE 0

\* lines 312-337: one turn of the team loop, and the return after the last.
FetchTeam(resp) ==
    /\ pc = "scan"
    /\ Scanned(resp,
               get_team_members(resp).members,
               ScanTeam(player_name, normalized_input_date,
                        get_team_members(resp).members))
    /\ UNCHANGED << logged_in, player_name, birth_date, search_status, teams,
                    normalized_input_date >>

\* The caller has the value; the object is ready for the next call.
Return ==
    /\ pc = "done"
    /\ pc' = "idle"
    /\ player_name' = NoneVal
    /\ birth_date' = NoneVal
    /\ search_status' = "none"
    /\ teams' = <<>>
    /\ ti' = 0
    /\ normalized_input_date' = EmptyStr
    /\ last_resp' = NoResponse
    /\ members' = <<>>
    /\ fetched' = <<>>
    /\ returned_at' = 0
    /\ result' = NoResult
    /\ UNCHANGED logged_in

LoginOutcomes == {"marker", "no_marker", "exception"}

Next ==
    \/ \E outcome \in LoginOutcomes :
         Login(outcome) /\ UNCHANGED << site, first, fn, db_vars >>
    \/ \E name \in AppNames, date \in AppDates :
         \E resp \in IF logged_in THEN SearchResponses ELSE {NoResponse} :
           Call(name, date, resp) /\ UNCHANGED << site, first, fn, db_vars >>
    \/ \E resp \in FetchResponses :
         FetchTeam(resp) /\ UNCHANGED << site, first, fn, db_vars >>
    \/ Return /\ UNCHANGED << site, first, fn, db_vars >>

Spec == Init /\ [][Next]_vars

(***************************************************************************)
(* Properties.  They are stated on the arguments of the call and on the    *)
(* roster of the team the call ended in, with the threshold written out.   *)
(***************************************************************************)
\* the fraction r is greater than 0.8
Exceeds08(r) == r.num * 10 > 8 * r.den

\* the similarity of member i of the roster to the applicant's name is > 0.8
Over08(i) ==
    /\ player_name # NoneVal
    /\ Exceeds08(ratio(player_name, members[i].name))

\* member i's birth date and the applicant's are equal once normalized
SameDate(i) ==
    normalize_date_format(birth_date)
      = normalize_date_format(members[i].birth_date)

\* no member before i has similarity > 0.8
FirstOver08(i) == Over08(i) /\ \A j \in 1..(i - 1) : ~Over08(j)

\* the call has returned member i of the roster with the given status
ReturnedMember(i, status) ==
    /\ pc = "done"
    /\ result.status = status
    /\ result.jba_data = members[i]
    /\ returned_at = i

\* C1: when the scan reaches an entry with similarity > 0.8 and an equal
\* normalized birth date, and no earlier entry had similarity > 0.8, the
\* result is 'match' with exactly that entry, whatever follows it.
C1_FirstQualifyingEntryIsMatched ==
    \A i \in 1..Len(members) :
        (FirstOver08(i) /\ SameDate(i)) => ReturnedMember(i, "match")

\* C1 witness: the first entry is matched and a later, different entry of
\* the roster has similarity > 0.8 and an equal date too.
C1_Witness ==
    /\ ReturnedMember(1, "match")
    /\ Len(members) = 2
    /\ members[2] # members[1]
    /\ Over08(2) /\ SameDate(2)

\* C2 (as claimed): once a roster request of the call has failed, the call
\* returns status 'error'.
C2_FetchFailureIsError ==
    (pc = "done" /\ \E k \in 1..Len(fetched) : ~fetched[k].ok)
        => result.status = "error"

\* C3 (as claimed): a team search that failed makes the call return status
\* 'error'; 'not_found' for want of teams needs a search that succeeded.
C3_SearchFailureIsError ==
    (pc = "done" /\ search_status # "ok") => result.status = "error"

\* C4: when the first entry with similarity > 0.8 has a different
\* normalized birth date, the result is 'name_match_birth_mismatch' with
\* that entry and no further roster is requested, whatever follows it.
C4_FirstNameMatchWithOtherDateEndsScan ==
    \A i \in 1..Len(members) :
        (FirstOver08(i) /\ ~SameDate(i))
            => /\ ReturnedMember(i, "name_match_birth_mismatch")
               /\ Len(fetched) = ti
               /\ fetched[ti].examined = i

\* C4 witness: the mismatch is returned for the first entry although a
\* later entry has similarity > 0.8 and an equal date, and a team is left.
C4_Witness ==
    /\ ReturnedMember(1, "name_match_birth_mismatch")
    /\ Len(members) = 2
    /\ Over08(2) /\ SameDate(2)
    /\ ti < Len(teams)

\* C5: a 'name_match_birth_mismatch' result carries the roster entry as the
\* roster gave it and quotes its birth_date as the roster wrote it.
C5_MismatchQuotesRosterDate ==
    result.status = "name_match_birth_mismatch"
        => /\ returned_at \in 1..Len(members)
           /\ result.jba_data = members[returned_at]
           /\ result.message.arg = members[returned_at].birth_date
           /\ \E t \in 1..Len(last_resp.tables) :
                \E r \in 1..Len(last_resp.tables[t]) :
                   /\ Len(last_resp.tables[t][r]) >= 3
                   /\ last_resp.tables[t][r][2] = result.jba_data.name
                   /\ last_resp.tables[t][r][3] = result.message.arg

\* C5 witness: a mismatch on an entry whose date is not in normalized form.
C5_Witness ==
    /\ result.status = "name_match_birth_mismatch"
    /\ result.message.arg = DateOther
    /\ normalize_date_format(DateOther) # DateOther

\* C6: when the search yields no team the call returns 'not_found',
\* whatever the applicant, and requests no roster.
C6_NoTeamIsNotFound ==
    (pc = "done" /\ teams = <<>>)
        => /\ result.status = "not_found"
           /\ fetched = <<>>
           /\ last_resp = NoResponse

\* C6 witness: a search that succeeded with no team, for a named applicant.
C6_Witness ==
    /\ pc = "done"
    /\ teams = <<>>
    /\ search_status = "ok"
    /\ player_name = abc
    /\ result.status = "not_found"

\* C7: when no entry of the rosters has similarity > 0.8 (empty rosters
\* included) the call returns 'not_found' after requesting every team and
\* examining every entry.
C7_NoSimilarNameIsNotFound ==
    ( /\ pc = "done"
      /\ teams # <<>>
      /\ player_name # NoneVal
      /\ \A i \in 1..Len(members) : ~Over08(i) )
        => /\ result.status = "not_found"
           /\ Len(fetched) = Len(teams)
           /\ \A k \in 1..Len(fetched) :
                /\ fetched[k].team = teams[k]
                /\ fetched[k].examined = fetched[k].size

\* C7 witness: two teams, the second with two entries, none similar enough.
C7_Witness ==
    /\ pc = "done"
    /\ result.status = "not_found"
    /\ Len(teams) = 2
    /\ Len(fetched) = 2
    /\ Len(members) = 2
    /\ player_name = ab

\* C8: the call ends in a returned value with one of the four statuses,
\* also when a request raises or the comparison raises.
C8_AlwaysAResultValue ==
    /\ pc = "done"
         => result.status \in {"match", "name_match_birth_mismatch",
                               "not_found", "error"}
    /\ pc # "done" => result = NoResult

\* C8 witness: the comparison raised on a name of None and the call
\* returned 'error'; a roster request that raised is behind it.
C8_Witness ==
    /\ pc = "done"
    /\ result.status = "error"
    /\ player_name = NoneVal
    /\ Len(fetched) = 2
    /\ ~fetched[1].ok

\* a date in canonical form: four digits, "/", digits, "/", digits
IsCanonicalDate(d) ==
    /\ Len(SplitSlash(d)) = 3
    /\ Len(SplitSlash(d)[1]) = 4
    /\ \A k \in 1..3 : IsDigitStr(SplitSlash(d)[k])

\* a roster entry with a name and a birth date of a recognized format
WellFormed(m) ==
    /\ m.name # EmptyStr
    /\ IsCanonicalDate(normalize_date_format(m.birth_date))

\* the rows of the page the call ended in
PageRows ==
    UNION { { last_resp.tables[t][r] : r \in 1..Len(last_resp.tables[t]) } :
              t \in 1..Len(last_resp.tables) }

C10_ThresholdIsStrict ==
    /\ result.status \in {"match", "name_match_birth_mismatch"}
         => /\ returned_at \in 1..Len(members)
            /\ result.jba_data = members[returned_at]
            /\ Exceeds08(result.similarity)
            /\ Over08(returned_at)
    /\ (pc = "done" /\ player_name # NoneVal)
         => \A i \in 1..Len(members) :
              (\A j \in 1..i : ~Over08(j))
                 => /\ returned_at # i
                    /\ fetched[Len(fetched)].examined >= i
                    /\ i < Len(members) => fetched[Len(fetched)].examined > i

\* C10 witness: the first entry has similarity exactly 0.8 and an equal
\* date, and the call returned the second entry.
C10_Witness ==
    /\ pc = "done"
    /\ player_name # NoneVal
    /\ Len(members) = 2
    /\ ratio(player_name, members[1].name).num * 10
         = 8 * ratio(player_name, members[1].name).den
    /\ SameDate(1)
    /\ returned_at = 2

(***************************************************************************)
(* Two calls against the same site.  The answers of the site are chosen    *)
(* once: site.search is the answer to the team search and site.pages[t]    *)
(* the page of team t.  The object logs in or not, is called, returns,     *)
(* and is called again with the arguments of the first call; nothing       *)
(* happens between the two calls.                                          *)
(***************************************************************************)
SiteSearches ==
    { r \in SearchResponses :
        \/ r.kind = "post_non200"
        \/ /\ r.kind = "ok"
           /\ r.has_records
           /\ Len(r.records) >= MaxTeams - 1
           /\ \A k \in 1..Len(r.records) : r.records[k].team_gender_id = MensTeam }

SitePages ==
    { [kind |-> "non200", tables |-> <<>>],
      TablePage(HeaderRow, << <<<<"1">>, abc, DatePadded>> >>, MinRows),
      TablePage(HeaderRow, << <<<<"2">>, abcd, DatePlain>> >>, MinRows),
      TablePage(HeaderRow, << <<<<"4">>, ab, DatePlain>>,
                              <<<<"3">>, abcd, DateOther>> >>, MinRows) }

Sites == [search : SiteSearches, pages : [1..MaxTeams -> SitePages]]

InitFixedSite ==
    /\ ObjectInit
    /\ NoDb
    /\ site \in Sites
    /\ first = NoFirst
    /\ fn = NoFn

\* login happens before the first call only
LoginFirst(outcome) ==
    /\ first.n = 0
    /\ Login(outcome)
    /\ UNCHANGED << site, first, fn, db_vars >>

\* Variant of CallSite that C11 must tell apart: the call ends the session.
CallSiteEndsSession(name, date) ==
    /\ first.n < 2
    /\ first.n = 1 => name = first.name /\ date = first.date
    /\ \E resp \in {IF logged_in THEN site.search ELSE NoResponse} :
         /\ pc = "idle"
         /\ player_name' = name
         /\ birth_date' = date
         /\ search_status' = SearchStatus(logged_in, resp)
         /\ teams' = search_teams_by_university(logged_in, resp)
         /\ IF teams' = <<>>
            THEN /\ result' = NoTeamsResult
                 /\ pc' = "done"
                 /\ ti' = 0
                 /\ normalized_input_date' = EmptyStr
            ELSE /\ result' = NoResult
                 /\ pc' = "scan"
                 /\ ti' = 1
                 /\ normalized_input_date' = normalize_date_format(date)
         /\ logged_in' = FALSE
         /\ UNCHANGED << last_resp, members, fetched, returned_at >>
    /\ UNCHANGED << site, first, fn, db_vars >>

\* verify_player_info called on the fixed site: the first call with any
\* arguments, the second with those of the first.
CallSite(name, date) ==
    /\ first.n < 2
    /\ first.n = 1 => name = first.name /\ date = first.date
    /\ \E resp \in {IF logged_in THEN site.search ELSE NoResponse} :
         Call(name, date, resp)
    /\ UNCHANGED << site, first, fn, db_vars >>

\* line 313 on the fixed site: the page of team teams[ti]
FetchSite ==
    /\ pc = "scan"
    /\ \E resp \in {site.pages[teams[ti]]} : FetchTeam(resp)
    /\ UNCHANGED << site, first, fn, db_vars >>

\* the call returns; the first call's arguments and value are kept
ReturnSite ==
    /\ first' = IF first.n = 0
                THEN [n |-> 1, name |-> player_name, date |-> birth_date,
                      result |-> result]
                ELSE [first EXCEPT !.n = 2]
    /\ Return
    /\ UNCHANGED << site, fn, db_vars >>

NextFixedSite ==
    \/ \E outcome \in LoginOutcomes : LoginFirst(outcome)
    \/ \E name \in AppNames, date \in AppDates : CallSite(name, date)
    \/ FetchSite
    \/ ReturnSite

SpecFixedSite == InitFixedSite /\ [][NextFixedSite]_vars

\* C11: against the same teams and the same rosters, the second call with
\* the arguments of the first returns what the first returned.
C11_SecondCallReturnsTheSame ==
    (pc = "done" /\ first.n = 1) => result = first.result

\* the second call ends with a match found in the second team
C11_Witness ==
    /\ pc = "done"
    /\ first.n = 1
    /\ result.status = "match"
    /\ Len(fetched) = 2
    /\ first.result = result

(***************************************************************************)
(* normalize_date_format on its own (lines 272-297).  The argument is any  *)
(* short string over DateChars, or a date written with a year text, a      *)
(* month text and a day text in one of the shapes of DateShapes; the       *)
(* function is applied to it, and then to its own value.                   *)
(***************************************************************************)
\* longest string of DateStrings
MaxDateLen == 3

DateChars == {"0", "5", "/", "nen", "gatsu", "nichi", " ", "x"}

DateStrings == UNION { [1..k -> DateChars] : k \in 0..MaxDateLen }

\* four digits
YearTexts4 == { <<"2", "0", "0", "4">>, <<"0", "0", "0", "1">> }

\* one or two digits
PartTexts12 ==
    { <<"5">>, <<"0", "5">>, <<"1", "2">>, <<"3", "1">>, <<"0">>, <<"0", "0">> }

\* other year texts and other month and day texts
YearTextsOther == { <<"2", "0", "4">>, <<"2", "0", "0", "4", "5">>, abc }

PartTextsOther ==
    { <<"0", "0", "5">>, <<"x">>, <<>>, <<" ", "5">>, <<"-", "5">>, <<"+", "5">> }

KanjiDate(y, m, d) == y \o <<"nen">> \o m \o <<"gatsu">> \o d \o <<"nichi">>

SlashDate(y, m, d) == y \o <<"/">> \o m \o <<"/">> \o d

DashDate(y, m, d) == y \o <<"-">> \o m \o <<"-">> \o d

DateShapes(y, m, d) ==
    { KanjiDate(y, m, d), KanjiDate(y, m, d) \o <<"x">>,
      SlashDate(y, m, d), SlashDate(y, m, d) \o <<"/", "1">>,
      DashDate(y, m, d) }

DateInputs ==
    {NoneVal} \cup DateStrings
    \cup UNION { DateShapes(y, m, d) :
                   y \in YearTexts4 \cup YearTextsOther,
                   m \in PartTexts12 \cup PartTextsOther,
                   d \in PartTexts12 \cup PartTextsOther }

InitNormalize ==
    /\ ObjectInit
    /\ NoDb
    /\ site = NoSite
    /\ first = NoFirst
    /\ fn \in { [n |-> 0, arg |-> x, out1 |-> <<>>, out2 |-> <<>>] :
                  x \in DateInputs }

\* normalize_date_format(date_str)
Normalize ==
    /\ fn.n = 0
    /\ fn' = [fn EXCEPT !.n = 1, !.out1 = normalize_date_format(fn.arg)]
    /\ UNCHANGED << object_vars, site, first, db_vars >>

\* normalize_date_format applied to the value it returned
NormalizeAgain ==
    /\ fn.n = 1
    /\ fn' = [fn EXCEPT !.n = 2, !.out2 = normalize_date_format(fn.out1)]
    /\ UNCHANGED << object_vars, site, first, db_vars >>

NextNormalize == Normalize \/ NormalizeAgain

SpecNormalize == InitNormalize /\ [][NextNormalize]_vars

\* C12: normalize_date_format applied to its own value returns that value.
C12_NormalizeIsIdempotent == fn.n = 2 => fn.out2 = fn.out1

\* a padded date written with the year, month and day signs is normalized,
\* and normalizing the value again leaves it
C12_Witness ==
    /\ fn.n = 2
    /\ fn.arg = KanjiDate(<<"2", "0", "0", "4">>, <<"0", "5">>, <<"3", "1">>)
    /\ fn.out1 = DatePlain
    /\ fn.out2 = DatePlain

\* a text of one or two digits without its leading zero
Unpad(t) == IF Len(t) = 2 /\ t[1] = "0" THEN <<t[2]>> ELSE t

\* C13: a date written as four digits, the year sign, one or two digits, the
\* month sign, one or two digits and the day sign is returned as
\* year/month/day with the month and the day without leading zero; 2004,
\* year sign, 5, month sign, 31, day sign gives 2004/5/31.
C13_SignedDateBecomesCanonical ==
    fn.n >= 1 =>
      /\ \A y \in YearTexts4, m \in PartTexts12, d \in PartTexts12 :
           fn.arg = KanjiDate(y, m, d)
             => fn.out1 = SlashDate(y, Unpad(m), Unpad(d))
      /\ fn.arg = DateKanji => fn.out1 = DatePlain

C13_Witness ==
    /\ fn.n = 1
    /\ fn.arg = DateKanji
    /\ fn.out1 = DatePlain

\* C14: a date written as four digits, a slash, one or two digits, a slash
\* and one or two digits is returned with the same year and with the month
\* and the day without leading zero; 2004/05/31 gives 2004/5/31.
C14_SlashDateBecomesCanonical ==
    fn.n >= 1 =>
      /\ \A y \in YearTexts4, m \in PartTexts12, d \in PartTexts12 :
           fn.arg = SlashDate(y, m, d)
             => fn.out1 = SlashDate(y, Unpad(m), Unpad(d))
      /\ fn.arg = DatePadded => fn.out1 = DatePlain

C14_Witness ==
    /\ fn.n = 1
    /\ fn.arg = DatePadded
    /\ fn.out1 = DatePlain

\* s is four digits, sep1, one or two digits, sep2, one or two digits, tail
HasDateShape(s, sep1, sep2, tail) ==
    \E m \in 1..2, d \in 1..2 :
      /\ Len(s) = 4 + 1 + m + 1 + d + Len(tail)
      /\ IsDigitStr(SubSeq(s, 1, 4))
      /\ s[5] = sep1
      /\ IsDigitStr(SubSeq(s, 6, 5 + m))
      /\ s[6 + m] = sep2
      /\ IsDigitStr(SubSeq(s, 7 + m, 6 + m + d))
      /\ SubSeq(s, 7 + m + d, Len(s)) = tail

\* one of the two recognized patterns
RecognizedDate(s) ==
    \/ HasDateShape(s, "nen", "gatsu", <<"nichi">>)
    \/ HasDateShape(s, "/", "/", <<>>)

\* C15: an empty or absent input gives the empty string, and an input that
\* matches neither recognized pattern is returned as it is.
C15_UnrecognizedIsReturnedUnchanged ==
    fn.n >= 1 =>
      /\ fn.arg \in {NoneVal, EmptyStr} => fn.out1 = EmptyStr
      /\ (fn.arg \notin {NoneVal, EmptyStr} /\ ~RecognizedDate(fn.arg))
           => fn.out1 = fn.arg

\* month and day texts that int() rejects
NonIntTexts == { t \in PartTextsOther : StrOfInt(t) = IntFail }

\* C16: no input makes the function raise, and three slash-separated parts
\* whose month or day part is not an integer are returned as they are.
C16_ParseErrorReturnsInput ==
    fn.n >= 1 =>
      /\ fn.out1 # IntFail
      /\ \A y \in YearTexts4 \cup YearTextsOther,
            m \in PartTexts12 \cup PartTextsOther,
            d \in PartTexts12 \cup PartTextsOther :
           (fn.arg = SlashDate(y, m, d) /\ (m \in NonIntTexts \/ d \in NonIntTexts))
             => fn.out1 = fn.arg

C16_Witness ==
    /\ fn.n = 1
    /\ fn.arg = SlashDate(<<"2", "0", "0", "4">>, <<"x">>, <<"0", "5">>)
    /\ fn.out1 = fn.arg

(***************************************************************************)
(* Properties of one call of verify_player_info, under Spec.               *)
(***************************************************************************)
\* C17: the dates of the applicant and of the returned entry count as the
\* same date exactly when normalize_date_format gives equal strings for
\* them, so the applicant's 2004(year)5(month)31(day) and the roster's
\* 2004/05/31 are the same date.
C17_DatesComparedNormalized ==
    (pc = "done" /\ returned_at > 0) =>
      /\ result.status = "match" <=> SameDate(returned_at)
      /\ result.status = "name_match_birth_mismatch" <=> ~SameDate(returned_at)
      /\ (birth_date = DateKanji /\ members[returned_at].birth_date = DatePadded)
           => result.status = "match"

C17_Witness ==
    /\ pc = "done"
    /\ returned_at > 0
    /\ birth_date = DateKanji
    /\ members[returned_at].birth_date = DatePadded
    /\ result.status = "match"

\* what the requests of the call so far look like in every state
C19_Requests ==
    /\ Len(fetched) <= Len(teams)
    /\ \A k \in 1..Len(fetched) : fetched[k].team = teams[k]
    /\ \A k \in 1..(Len(fetched) - 1) : fetched[k].examined = fetched[k].size
    /\ pc = "scan" =>
         /\ Len(fetched) = ti - 1
         /\ search_status = "ok"
    /\ (pc = "done" /\ teams # <<>>) => Len(fetched) = ti
    /\ returned_at > 0 =>
         /\ pc = "done"
         /\ fetched[Len(fetched)].examined = returned_at
         /\ FirstOver08(returned_at)
    /\ \A i \in 1..Len(members) : Over08(i) => returned_at \in 1..i

\* what one step does to them
C19_RequestStep ==
    /\ search_status # "none" => search_status' \in {search_status, "none"}
    /\ pc = "scan" =>
         /\ teams' = teams
         /\ Len(fetched') = Len(fetched) + 1
         /\ SubSeq(fetched', 1, Len(fetched)) = fetched
    /\ pc = "done" => fetched' = <<>>

\* C19: in one call the team search is made once; the rosters are requested
\* one after the other in the order of the search's list, each team at most
\* once; every entry of a team is examined before the next team is
\* requested; and no roster is requested once an entry with similarity
\* above 0.8 has been found.
C19_OneSearchThenRostersInOrder ==
    []C19_Requests /\ [][C19_RequestStep]_vars

\* the first team's two entries were examined, then an entry of the second
\* team ended the call
C19_Witness ==
    /\ pc = "done"
    /\ Len(fetched) = 2
    /\ fetched[1].size = 2
    /\ fetched[1].examined = 2
    /\ returned_at > 0

\* C20: a result 'match' or 'name_match_birth_mismatch' carries an entry of
\* the roster fetched last in this call, with that entry's similarity to
\* the applicant's name, which is above 0.8 and at most 1; the normalized
\* dates are equal for 'match' and different for the mismatch.
C20_ReturnedEntryIsFromARosterAndQualifies ==
    (pc = "done" /\ result.status \in {"match", "name_match_birth_mismatch"}) =>
      /\ fetched # <<>>
      /\ fetched[Len(fetched)].ok
      /\ members = get_team_members(last_resp).members
      /\ \E i \in 1..Len(members) : result.jba_data = members[i]
      /\ \E row \in PageRows :
           IsMemberRow(row) /\ MemberOf(row) = result.jba_data
      /\ result.similarity = ratio(player_name, result.jba_data.name)
      /\ result.similarity.num * 10 > 8 * result.similarity.den
      /\ result.similarity.num <= result.similarity.den
      /\ result.status = "match" =>
           normalize_date_format(birth_date)
             = normalize_date_format(result.jba_data.birth_date)
      /\ result.status = "name_match_birth_mismatch" =>
           normalize_date_format(birth_date)
             # normalize_date_format(result.jba_data.birth_date)

\* a match with a similarity below 1, found in the second team
C20_Witness ==
    /\ pc = "done"
    /\ result.status = "match"
    /\ result.similarity.num < result.similarity.den
    /\ Len(fetched) = 2

(***************************************************************************)
(* SequenceMatcher(None, a, b).ratio() on its own (line 317): a is the     *)
(* applicant's name and b the roster's, any two strings of up to           *)
(* MaxNameLen characters over NameChars.                                   *)
(***************************************************************************)
\* longest name of NamePairs
MaxNameLen == 3

NameChars == {"a", "b", "c"}

NameStrings == UNION { [1..k -> NameChars] : k \in 0..MaxNameLen }

NamePairs == NameStrings \X NameStrings

InitRatio ==
    /\ ObjectInit
    /\ NoDb
    /\ site = NoSite
    /\ first = NoFirst
    /\ fn \in { [n |-> 0, arg |-> p, out1 |-> NoRatio, out2 |-> NoRatio] :
                  p \in NamePairs }

\* SequenceMatcher(None, player_name, member["name"]).ratio()
Ratio ==
    /\ fn.n = 0
    /\ fn' = [fn EXCEPT !.n = 1, !.out1 = ratio(fn.arg[1], fn.arg[2])]
    /\ UNCHANGED << object_vars, site, first, db_vars >>

NextRatio == Ratio

SpecRatio == InitRatio /\ [][NextRatio]_vars

\* the two strings have no character in common
NoCommonChar(a, b) ==
    \A i \in 1..Len(a), j \in 1..Len(b) : a[i] # b[j]

\* C18: the similarity of two names is at least 0 and at most 1, is 1 for
\* two equal names and 0 for two non-empty names without a common
\* character.
C18_RatioBetween0And1 ==
    fn.n >= 1 =>
      /\ fn.out1.den > 0
      /\ 0 <= fn.out1.num
      /\ fn.out1.num <= fn.out1.den
      /\ fn.arg[1] = fn.arg[2] => fn.out1.num = fn.out1.den
      /\ (fn.arg[1] # <<>> /\ fn.arg[2] # <<>> /\ NoCommonChar(fn.arg[1], fn.arg[2]))
           => fn.out1.num = 0

\* two different names with a ratio strictly between 0 and 1
C18_Witness ==
    /\ fn.n = 1
    /\ fn.arg = << <<"a", "b", "c">>, <<"a", "c">> >>
    /\ fn.out1.num > 0
    /\ fn.out1.num < fn.out1.den

\* C21: an applicant without a birth date (empty or absent) and an entry
\* with an empty birth date both normalize to the empty string, so the
\* first entry with similarity above 0.8, when its date is empty, is
\* returned as 'match'.
C21_EmptyDatesMatch ==
    \A i \in 1..Len(members) :
      (/\ birth_date \in {EmptyStr, NoneVal}
       /\ members[i].birth_date = EmptyStr
       /\ FirstOver08(i))
        => /\ normalize_date_format(birth_date) = EmptyStr
           /\ normalize_date_format(members[i].birth_date) = EmptyStr
           /\ ReturnedMember(i, "match")

\* the applicant's date is absent, the entry's is empty
C21_Witness ==
    /\ birth_date = NoneVal
    /\ returned_at > 0
    /\ members[returned_at].birth_date = EmptyStr
    /\ ReturnedMember(returned_at, "match")

\* what one step does to logged_in
C22_FlagStep ==
    /\ logged_in => logged_in'
    /\ (~logged_in /\ logged_in') => Login("marker")
    /\ (pc # "idle" \/ pc' # "idle") => logged_in' = logged_in
    /\ (~logged_in /\ pc = "idle" /\ pc' # "idle") =>
         /\ search_status' = "not_logged_in"
         /\ teams' = <<>>
         /\ fetched' = <<>>

\* what holds of a call made without login
C22_NoSearchWithoutLogin ==
    (pc # "idle" /\ ~logged_in) =>
      /\ search_status = "not_logged_in"
      /\ teams = <<>>
      /\ fetched = <<>>

\* C22: logged_in is False at first, becomes True only by a login whose
\* answer holds the logout word and is never reset, neither by a later
\* login that fails or raises nor by the search, the roster request or
\* verify_player_info; while it is False the team search makes no request
\* and returns the empty list.
C22_LoggedInIsSetByLoginOnly ==
    /\ ~logged_in
    /\ []C22_NoSearchWithoutLogin
    /\ [][C22_FlagStep]_vars

\* logged in, and a call has requested two rosters and ended
C22_Witness ==
    /\ logged_in
    /\ pc = "done"
    /\ Len(fetched) = 2

(***************************************************************************)
(* TournamentManagement (lines 453-547) on the table tournaments of        *)
(* DatabaseManager (lines 383-391).  The table is the sequence of its      *)
(* rows in id order; TournamentManagement deletes no row, so the           *)
(* AUTOINCREMENT id of a row is its place.  Each method opens a            *)
(* connection, runs its statements and commits once: one step.             *)
(***************************************************************************)
\* most rows in tournaments
MaxTournaments == 3

\* arguments of create_tournament; both columns are NOT NULL
TournamentNames == {<<"T">>, NoneVal}

TournamentYears == {<<"2", "0", "2", "4">>, NoneVal}

\* line 472: UPDATE tournaments SET is_active = 0 WHERE id != keep
DeactivateOthers(table, keep) ==
    [k \in 1..Len(table) |->
       IF table[k].id # keep THEN [table[k] EXCEPT !.is_active = 0]
       ELSE table[k]]

\* lines 464-467: the row INSERTed, with the id AUTOINCREMENT gives it
NewTournament(table, tournament_name, tournament_year) ==
    [id |-> Len(table) + 1, tournament_name |-> tournament_name,
     tournament_year |-> tournament_year, is_active |-> 1,
     response_accepting |-> 1]

\* Variant of create_tournament that C23 must tell apart: the other
\* tournaments stay as they are.
create_tournament_keeps_others(table, tournament_name, tournament_year) ==
    IF tournament_name = NoneVal \/ tournament_year = NoneVal
    THEN [table |-> table, id |-> 0, ok |-> FALSE]
    ELSE [table |-> Append(table, NewTournament(table, tournament_name,
                                                tournament_year)),
          id    |-> Len(table) + 1,
          ok    |-> TRUE]

\* Variant of create_tournament that C24 must tell apart: the UPDATE has no
\* WHERE clause.
create_tournament_deactivates_all(table, tournament_name, tournament_year) ==
    IF tournament_name = NoneVal \/ tournament_year = NoneVal
    THEN [table |-> table, id |-> 0, ok |-> FALSE]
    ELSE [table |-> DeactivateOthers(
                      Append(table, NewTournament(table, tournament_name,
                                                  tournament_year)),
                      0),
          id    |-> Len(table) + 1,
          ok    |-> TRUE]

\* lines 459-477: the table afterwards and the id returned; without a name
\* or a year the INSERT raises IntegrityError and nothing is committed.
create_tournament(table, tournament_name, tournament_year) ==
    IF tournament_name = NoneVal \/ tournament_year = NoneVal
    THEN [table |-> table, id |-> 0, ok |-> FALSE]
    ELSE [table |-> DeactivateOthers(
                      Append(table, NewTournament(table, tournament_name,
                                                  tournament_year)),
                      Len(table) + 1),
          id    |-> Len(table) + 1,
          ok    |-> TRUE]

\* line 484: the ids of the rows WHERE is_active = 1
ActiveIds(table) == { k \in 1..Len(table) : table[k].is_active = 1 }

\* lines 489-496
TournamentDict(row) ==
    [id |-> row.id, tournament_name |-> row.tournament_name,
     tournament_year |-> row.tournament_year,
     is_active |-> row.is_active # 0,
     response_accepting |-> row.response_accepting # 0]

\* lines 479-497: fetchone() gives the first such row, or None
get_active_tournament(table) ==
    IF ActiveIds(table) = {} THEN NoneVal
    ELSE TournamentDict(
           table[CHOOSE k \in ActiveIds(table) :
                   \A j \in ActiveIds(table) : k <= j])

\* Variant of switch_tournament that C25 must tell apart: nothing is done
\* when no tournament has the id.
switch_tournament_if_exists(table, tournament_id) ==
    IF tournament_id \notin 1..Len(table) THEN table
    ELSE [k \in 1..Len(table) |->
            [table[k] EXCEPT !.is_active =
               IF table[k].id = tournament_id THEN 1 ELSE 0]]

\* lines 521-533
switch_tournament(table, tournament_id) ==
    [k \in 1..Len(table) |->
       [table[k] EXCEPT !.is_active =
          IF table[k].id = tournament_id THEN 1 ELSE 0]]

\* lines 535-547: accepting is a bool, stored as 1 or 0
set_tournament_response_accepting(table, tournament_id, accepting) ==
    [k \in 1..Len(table) |->
       IF table[k].id = tournament_id
       THEN [table[k] EXCEPT !.response_accepting = IF accepting THEN 1 ELSE 0]
       ELSE table[k]]

\* the rest of the model stays as it starts
jba_vars == << object_vars, site, first, fn >>

main_vars == << admin_settings, player_applications, applicant >>

InitTournaments ==
    /\ ObjectInit
    /\ site = NoSite
    /\ first = NoFirst
    /\ fn = NoFn
    /\ NoDb

CreateTournament(tournament_name, tournament_year) ==
    /\ Len(tournaments) < MaxTournaments
    /\ \E done \in {create_tournament(tournaments, tournament_name,
                                      tournament_year)} :
         /\ tournaments' = done.table
         /\ tm_call' = [op |-> "create", id |-> done.id, ok |-> done.ok]
    /\ UNCHANGED << jba_vars, main_vars >>

SwitchTournament(tournament_id) ==
    /\ tournaments' = switch_tournament(tournaments, tournament_id)
    /\ tm_call' = [op |-> "switch", id |-> tournament_id, ok |-> TRUE]
    /\ UNCHANGED << jba_vars, main_vars >>

SetTournamentResponseAccepting(tournament_id, accepting) ==
    /\ tournaments' = set_tournament_response_accepting(tournaments,
                                                        tournament_id, accepting)
    /\ tm_call' = [op |-> "set_accepting", id |-> tournament_id, ok |-> TRUE]
    /\ UNCHANGED << jba_vars, main_vars >>

\* ids passed to the methods: those of rows and one of no row
TournamentIds == 1..(MaxTournaments + 1)

NextTournaments ==
    \/ \E n \in TournamentNames, y \in TournamentYears : CreateTournament(n, y)
    \/ \E t \in TournamentIds : SwitchTournament(t)
    \/ \E t \in TournamentIds, a \in BOOLEAN :
         SetTournamentResponseAccepting(t, a)

SpecTournaments == InitTournaments /\ [][NextTournaments]_vars

\* C23: after any sequence of create_tournament, switch_tournament and
\* set_tournament_response_accepting calls from the empty table, at most
\* one tournament has is_active = 1.
C23_AtMostOneActive == Cardinality(ActiveIds(tournaments)) <= 1

\* three tournaments, the first one made active again and accepting changed
C23_Witness ==
    /\ Len(tournaments) = 3
    /\ ActiveIds(tournaments) = {1}
    /\ tm_call.op = "set_accepting"

\* what a step that is a create_tournament call that returned does
C24_CreateStep ==
    (tm_call'.op = "create" /\ tm_call'.ok) =>
      /\ Len(tournaments') = Len(tournaments) + 1
      /\ \A k \in 1..Len(tournaments) : tournaments[k].id # tm_call'.id
      /\ \E n \in 1..Len(tournaments') :
           /\ tournaments'[n].id = tm_call'.id
           /\ tournaments'[n].is_active = 1
           /\ tournaments'[n].response_accepting = 1
           /\ get_active_tournament(tournaments') = TournamentDict(tournaments'[n])
      /\ get_active_tournament(tournaments').id = tm_call'.id
      /\ get_active_tournament(tournaments').response_accepting
      /\ \A k \in 1..Len(tournaments) :
           /\ tournaments'[k].id = tournaments[k].id
           /\ tournaments'[k].is_active = 0
           /\ tournaments'[k].response_accepting = tournaments[k].response_accepting

\* C24: create_tournament inserts a tournament that is active and accepting,
\* makes every other tournament inactive and returns the new id, so that
\* get_active_tournament then returns the new tournament; response_accepting
\* of the tournaments that were there is left as it was.
C24_CreateMakesTheNewTournamentActive == [][C24_CreateStep]_vars

\* the second tournament was just created; the first one, which had stopped
\* accepting, still does not accept
C24_Witness ==
    /\ tm_call = [op |-> "create", id |-> 2, ok |-> TRUE]
    /\ Len(tournaments) = 2
    /\ tournaments[1].response_accepting = 0
    /\ tournaments[1].is_active = 0
    /\ get_active_tournament(tournaments).id = 2

\* what holds after a switch_tournament call
C25_AfterSwitch ==
    tm_call.op = "switch" =>
      /\ (\E k \in 1..Len(tournaments) : tournaments[k].id = tm_call.id)
           => ActiveIds(tournaments) = {tm_call.id}
      /\ (\A k \in 1..Len(tournaments) : tournaments[k].id # tm_call.id)
           => /\ ActiveIds(tournaments) = {}
              /\ get_active_tournament(tournaments) = NoneVal

\* what a step that is a switch_tournament call does to the rows
C25_SwitchStep ==
    tm_call'.op = "switch" =>
      /\ Len(tournaments') = Len(tournaments)
      /\ \A k \in 1..Len(tournaments) :
           [tournaments'[k] EXCEPT !.is_active = 0]
             = [tournaments[k] EXCEPT !.is_active = 0]

\* C25: after switch_tournament(id) the active tournaments are exactly {id}
\* when a tournament has that id and none when no tournament has it, in
\* which case get_active_tournament returns None; the switch creates and
\* deletes no tournament.
C25_SwitchActivatesExactlyTheGivenId ==
    []C25_AfterSwitch /\ [][C25_SwitchStep]_vars

\* a switch to an id no tournament has: two tournaments, none active
C25_Witness ==
    /\ tm_call = [op |-> "switch", id |-> 3, ok |-> TRUE]
    /\ Len(tournaments) = 2
    /\ ActiveIds(tournaments) = {}

(***************************************************************************)
(* main (lines 856-1288): the settings tab of the admin page, the list of  *)
(* applications of the admin page and the applicant page, on the database  *)
(* of init_database (lines 726-780).  The admin and the applicant are      *)
(* two sessions, whose script runs take turns statement by statement on    *)
(* the database: the applicant's run reads the setting and closes the      *)
(* connection (lines 1209-1214), and opens another one for the INSERT      *)
(* (lines 1277-1285).  admin_settings is the value stored under the key    *)
(* 'accepting_applications' (the key is UNIQUE), applicant is "idle"       *)
(* between runs and "form" in a run that has passed line 1218.             *)
(***************************************************************************)
\* most ids given out in player_applications
MaxApplications == 3

\* line 911: the choices of the status selectbox
StatusChoices == {"pending", "approved", "rejected"}

\* line 741: status TEXT DEFAULT 'pending'
DefaultStatus == "pending"

\* lines 1165 and 1171: the two choices of the radio and the value stored
AcceptingChoices == {"open", "stopped"}

NewSetting(accepting) == IF accepting = "open" THEN "true" ELSE "false"

\* lines 1211-1213: result[0] if result else 'true'
AcceptingApplications(setting) == IF setting = Absent THEN "true" ELSE setting

\* lines 1278-1283: INSERT INTO player_applications without a status
InsertApplication(table) ==
    [rows    |-> Append(table.rows, [id     |-> table.last_id + 1,
                                     status |-> DefaultStatus]),
     last_id |-> table.last_id + 1]

\* line 920: UPDATE player_applications SET status = ? WHERE id = ?
UpdateStatus(table, id, new_status) ==
    [table EXCEPT !.rows =
       [k \in 1..Len(table.rows) |->
          IF table.rows[k].id = id
          THEN [table.rows[k] EXCEPT !.status = new_status]
          ELSE table.rows[k]]]

\* line 931: DELETE FROM player_applications WHERE id = ?
DeleteApplication(table, id) ==
    [table EXCEPT !.rows = SelectSeq(table.rows, LAMBDA r : r.id # id)]

tm_vars == << tournaments, tm_call >>

InitMain ==
    /\ ObjectInit
    /\ site = NoSite
    /\ first = NoFirst
    /\ fn = NoFn
    /\ NoDb

\* lines 1155-1181, the button pressed: the admin stores the setting
AdminStoresAccepting(accepting) ==
    /\ admin_settings' = NewSetting(accepting)
    /\ UNCHANGED << jba_vars, tm_vars, player_applications, applicant >>

\* lines 907-925: the admin picks another status for a row of the list
AdminUpdatesStatus(id, new_status) ==
    /\ player_applications' = UpdateStatus(player_applications, id, new_status)
    /\ UNCHANGED << jba_vars, tm_vars, admin_settings, applicant >>

\* lines 928-935: the admin deletes a row of the list
AdminDeletes(id) ==
    /\ player_applications' = DeleteApplication(player_applications, id)
    /\ UNCHANGED << jba_vars, tm_vars, admin_settings, applicant >>

\* lines 1207-1218: a run of the applicant page reads the setting and stops
\* unless it is 'true'
ApplicantChecks ==
    /\ applicant = "idle"
    /\ applicant' = IF AcceptingApplications(admin_settings) # "true"
                    THEN "idle" ELSE "form"
    /\ UNCHANGED << jba_vars, tm_vars, admin_settings, player_applications >>

\* lines 1220-1288: the form; with the button pressed, name and university
\* filled in and the files written, the row is inserted
ApplicantSubmits(pressed, filled, written) ==
    /\ applicant = "form"
    /\ (pressed /\ filled /\ written)
         => player_applications.last_id < MaxApplications
    /\ applicant' = "idle"
    /\ player_applications' =
         IF pressed /\ filled /\ written
         THEN InsertApplication(player_applications)
         ELSE player_applications
    /\ UNCHANGED << jba_vars, tm_vars, admin_settings >>

ApplicationIds == 1..MaxApplications

NextMain ==
    \/ \E accepting \in AcceptingChoices : AdminStoresAccepting(accepting)
    \/ \E id \in ApplicationIds, new_status \in StatusChoices :
         AdminUpdatesStatus(id, new_status)
    \/ \E id \in ApplicationIds : AdminDeletes(id)
    \/ ApplicantChecks
    \/ \E pressed \in BOOLEAN, filled \in BOOLEAN, written \in BOOLEAN :
         ApplicantSubmits(pressed, filled, written)

SpecMain == InitMain /\ [][NextMain]_vars

\* a row is inserted by the step
Inserted == player_applications'.last_id > player_applications.last_id

\* what one step does to player_applications
C26_InsertStep ==
    Inserted =>
      /\ admin_settings \in {Absent, "true"}
      /\ \E k \in 1..Len(player_applications'.rows) :
           /\ player_applications'.rows[k].id = player_applications'.last_id
           /\ player_applications'.rows[k].status = "pending"

\* every application has one of the three statuses
C26_StatusInRange ==
    \A k \in 1..Len(player_applications.rows) :
      player_applications.rows[k].status \in {"pending", "approved", "rejected"}

\* C26 (as claimed): an application is inserted only while the setting
\* 'accepting_applications' is absent or 'true', so none is inserted between
\* the admin's storing 'false' and the admin's storing 'true' again; an
\* inserted application has status 'pending', and the admin's updates keep
\* every status among pending, approved and rejected.
C26_InsertedOnlyWhileAccepting ==
    []C26_StatusInRange /\ [][C26_InsertStep]_vars

====
